---- MODULE Spec2Model ----
(***************************************************************************)
(* Streaming UTF-8 validator of src/text/utf8.rs (Utf8Validator).          *)
(*                                                                         *)
(* One validator instance is driven by a caller that feeds chunks with    *)
(* validate(bytes) and asks validate_end() whenever it likes.  The model  *)
(* keeps, next to the two fields of the struct, what the caller can see:   *)
(* the bytes it has passed so far, the arguments and the return value of   *)
(* the last call, and whether every validate call so far returned Ok.      *)
(*                                                                         *)
(* processed_count is a usize; the streams explored here are far below     *)
(* 2^64 bytes, so its wrap-around / overflow panic is out of reach.        *)
(***************************************************************************)
EXTENDS Integers, Sequences, FiniteSets, TLC

\* Longest stream (total bytes over all validate calls) that is explored.
MaxLen == 4

\* The byte values the caller draws chunks from: one value from every range
\* that the match arms of process_byte or the Unicode well-formedness rules
\* tell apart, the ordinary three-byte leads excepted, which lead to the same
\* states as the second byte of a four-byte sequence
\* (0x41, 0x80, 0x90, 0xA0, 0xC0, 0xC2, 0xE0, 0xED, 0xF0, 0xF1, 0xF4, 0xF5).
Bytes == {65, 128, 144, 160, 192, 194, 224, 237, 240, 241, 244, 245}

\* Longest stream that is explored when the bytes are fed one per call and
\* the last one ranges over every value of a u8.
MaxDepth == 3

\* Every value of a u8.
AllBytes == 0..255

\* enum State
States ==
    {"Valid", "Invalid", "AwaitingOneByte",
     "AwaitingTwoBytesA", "AwaitingTwoBytesB", "AwaitingTwoBytesC",
     "AwaitingThreeBytesA", "AwaitingThreeBytesB", "AwaitingThreeBytesC"}

AwaitingStates == States \ {"Valid", "Invalid"}

VARIABLES
    state,            \* Utf8Validator.state
    processed_count,  \* Utf8Validator.processed_count
    stream,           \* every byte passed to validate since new(), in order
    op,               \* the last call: "new", "validate" or "validate_end"
    chunkLen,         \* length of the slice passed to the last call (0 if none)
    result,           \* return value of the last call
    allOk             \* TRUE while every validate call has returned Ok

vars == <<state, processed_count, stream, op, chunkLen, result, allOk>>

----------------------------------------------------------------------------
\* Return values: io::Result<()>.

Ok == [ok |-> TRUE, kind |-> "Ok", pos |-> -1]

\* Err(InvalidData, "Invalid byte at position {pos}")
ErrInvalidByte(pos) == [ok |-> FALSE, kind |-> "InvalidByte", pos |-> pos]

\* Err(InvalidData, "Expected continuation byte at end of stream")
ErrEndOfStream == [ok |-> FALSE, kind |-> "EndOfStream", pos |-> -1]

----------------------------------------------------------------------------
\* The match of process_byte: the next DFA state for (state, byte).

InRange(b, lo, hi) == lo <= b /\ b <= hi

NextState(s, b) ==
    CASE s = "Valid" /\ InRange(b, 0, 127) -> "Valid"
      [] s = "Valid" /\ InRange(b, 194, 223) -> "AwaitingOneByte"
      [] s = "Valid" /\ (InRange(b, 225, 236) \/ InRange(b, 238, 239))
            -> "AwaitingTwoBytesA"
      [] s = "Valid" /\ b = 224 -> "AwaitingTwoBytesB"
      [] s = "Valid" /\ b = 237 -> "AwaitingTwoBytesC"
      [] s = "Valid" /\ b = 240 -> "AwaitingThreeBytesA"
      [] s = "Valid" /\ InRange(b, 241, 243) -> "AwaitingThreeBytesB"
      [] s = "Valid" /\ b = 244 -> "AwaitingThreeBytesC"
      [] s = "AwaitingOneByte" /\ InRange(b, 128, 191) -> "Valid"
      [] s = "AwaitingTwoBytesA" /\ InRange(b, 128, 191) -> "AwaitingOneByte"
      [] s = "AwaitingTwoBytesB" /\ InRange(b, 160, 191) -> "AwaitingOneByte"
      [] s = "AwaitingTwoBytesC" /\ InRange(b, 128, 159) -> "AwaitingOneByte"
      [] s = "AwaitingThreeBytesA" /\ InRange(b, 144, 191) -> "AwaitingTwoBytesA"
      [] s = "AwaitingThreeBytesB" /\ InRange(b, 128, 191) -> "AwaitingTwoBytesA"
      [] s = "AwaitingThreeBytesC" /\ InRange(b, 128, 191) -> "AwaitingTwoBytesA"
      [] OTHER -> "Invalid"

\* Mutant: the arm for the byte after lead 0xE0 takes every continuation byte
\* (0x80..=0xbf instead of 0xa0..=0xbf).
process_byte_no_overlong_guard(v, b) ==
    LET s == IF v.state = "AwaitingTwoBytesB" /\ InRange(b, 128, 191)
             THEN "AwaitingOneByte"
             ELSE NextState(v.state, b)
    IN  [state |-> s,
         processed_count |-> v.processed_count,
         res |-> IF s = "Invalid" THEN ErrInvalidByte(v.processed_count) ELSE Ok]

\* Mutant: the ASCII arm matches in every state ((_, 0x00..=0x7f) => Valid).
process_byte_ascii_any_state(v, b) ==
    LET s == IF InRange(b, 0, 127) THEN "Valid" ELSE NextState(v.state, b)
    IN  [state |-> s,
         processed_count |-> v.processed_count,
         res |-> IF s = "Invalid" THEN ErrInvalidByte(v.processed_count) ELSE Ok]

\* Mutant: the state that awaits two ordinary continuation bytes goes back to
\* Valid after one ((AwaitingTwoBytesA, 0x80..=0xbf) => Valid).
process_byte_one_continuation_short(v, b) ==
    LET s == IF v.state = "AwaitingTwoBytesA" /\ InRange(b, 128, 191)
             THEN "Valid"
             ELSE NextState(v.state, b)
    IN  [state |-> s,
         processed_count |-> v.processed_count,
         res |-> IF s = "Invalid" THEN ErrInvalidByte(v.processed_count) ELSE Ok]

\* Mutant: the error is returned only for the byte that enters Invalid; a byte
\* processed when the state is already Invalid returns Ok.
process_byte_reports_entry_only(v, b) ==
    LET s == NextState(v.state, b)
    IN  [state |-> s,
         processed_count |-> v.processed_count,
         res |-> IF s = "Invalid" /\ v.state # "Invalid"
                 THEN ErrInvalidByte(v.processed_count)
                 ELSE Ok]

\* Mutant: the two-byte lead arm starts at 0xc0 (0xc0..=0xdf) instead of 0xc2.
process_byte_accepts_c0_c1(v, b) ==
    LET s == IF v.state = "Valid" /\ InRange(b, 192, 193)
             THEN "AwaitingOneByte"
             ELSE NextState(v.state, b)
    IN  [state |-> s,
         processed_count |-> v.processed_count,
         res |-> IF s = "Invalid" THEN ErrInvalidByte(v.processed_count) ELSE Ok]

\* process_byte(&mut self, b): assigns self.state, then returns Err carrying
\* the current processed_count if the new state is Invalid, Ok otherwise.
\* v is the validator [state, processed_count]; the result is the validator
\* after the call together with the returned value.
process_byte(v, b) ==
    LET s == NextState(v.state, b)
    IN  [state |-> s,
         processed_count |-> v.processed_count,
         res |-> IF s = "Invalid" THEN ErrInvalidByte(v.processed_count) ELSE Ok]

\* is_ascii(bytes): every byte has (b >> 7) == 0.
is_ascii(bytes) == \A i \in 1..Len(bytes) : bytes[i] \div 128 = 0

\* Mutant: the slow-path loop counts the byte before it checks it
\* (processed_count += 1 ahead of the ?), so the failing byte is counted too.
RECURSIVE SlowPathCountsFailingByte(_, _, _)
SlowPathCountsFailingByte(v, bytes, i) ==
    IF i > Len(bytes)
    THEN [state |-> v.state, processed_count |-> v.processed_count, res |-> Ok]
    ELSE LET r == process_byte(v, bytes[i])
         IN  IF ~r.res.ok
             THEN [state |-> r.state,
                   processed_count |-> r.processed_count + 1,
                   res |-> r.res]
             ELSE SlowPathCountsFailingByte(
                      [state |-> r.state,
                       processed_count |-> r.processed_count + 1],
                      bytes, i + 1)

\* The slow-path loop of validate from index i on: process_byte(b)? and, when
\* it returned Ok, processed_count += 1.
RECURSIVE SlowPath(_, _, _)
SlowPath(v, bytes, i) ==
    IF i > Len(bytes)
    THEN [state |-> v.state, processed_count |-> v.processed_count, res |-> Ok]
    ELSE LET r == process_byte(v, bytes[i])
         IN  IF ~r.res.ok
             THEN r
             ELSE SlowPath([state |-> r.state,
                            processed_count |-> r.processed_count + 1],
                           bytes, i + 1)

\* Mutant: the fast path is taken whatever the state.
FastPathAnyState(v, bytes) == is_ascii(bytes)

\* Mutant: the fast path is taken unless the state is Invalid.
FastPathUnlessInvalid(v, bytes) == v.state # "Invalid" /\ is_ascii(bytes)

\* The guard of the ASCII fast path of validate.
FastPath(v, bytes) == v.state = "Valid" /\ is_ascii(bytes)

\* Mutant: the fast path returns without adding bytes.len() to the counter.
validate_fast_path_uncounted(v, bytes) ==
    IF FastPath(v, bytes)
    THEN [state |-> v.state, processed_count |-> v.processed_count, res |-> Ok]
    ELSE SlowPath(v, bytes, 1)

\* Mutant: the fast path assigns bytes.len() to the counter instead of adding.
validate_fast_path_assigns(v, bytes) ==
    IF FastPath(v, bytes)
    THEN [state |-> v.state, processed_count |-> Len(bytes), res |-> Ok]
    ELSE SlowPath(v, bytes, 1)

\* Mutant: a failing call has advanced the counter by the whole slice.
validate_counts_whole_slice(v, bytes) ==
    LET r == IF FastPath(v, bytes)
             THEN [state |-> v.state,
                   processed_count |-> v.processed_count + Len(bytes),
                   res |-> Ok]
             ELSE SlowPath(v, bytes, 1)
    IN  IF r.res.ok
        THEN r
        ELSE [state |-> r.state,
              processed_count |-> v.processed_count + Len(bytes),
              res |-> r.res]

\* Mutant: validate reports a chunk that ends inside a sequence as an error.
validate_eager_truncation(v, bytes) ==
    LET r == IF FastPath(v, bytes)
             THEN [state |-> v.state,
                   processed_count |-> v.processed_count + Len(bytes),
                   res |-> Ok]
             ELSE SlowPath(v, bytes, 1)
    IN  IF r.res.ok /\ r.state \in AwaitingStates
        THEN [state |-> "Invalid",
              processed_count |-> r.processed_count,
              res |-> ErrInvalidByte(r.processed_count)]
        ELSE r

\* Mutant: validate returns the error again at once when the state is
\* already Invalid, before looking at the slice.
validate_fails_fast_when_invalid(v, bytes) ==
    IF v.state = "Invalid"
    THEN [state |-> v.state,
          processed_count |-> v.processed_count,
          res |-> ErrInvalidByte(v.processed_count)]
    ELSE IF FastPath(v, bytes)
    THEN [state |-> v.state,
          processed_count |-> v.processed_count + Len(bytes),
          res |-> Ok]
    ELSE SlowPath(v, bytes, 1)

\* validate(&mut self, bytes)
validate(v, bytes) ==
    IF FastPath(v, bytes)
    THEN [state |-> v.state,
          processed_count |-> v.processed_count + Len(bytes),
          res |-> Ok]
    ELSE SlowPath(v, bytes, 1)

\* Mutant: validate_end only refuses the Invalid state.
validate_end_only_invalid(v) == IF v.state # "Invalid" THEN Ok ELSE ErrEndOfStream

\* validate_end(&self)
validate_end(v) == IF v.state = "Valid" THEN Ok ELSE ErrEndOfStream

\* Utf8Validator::new()
new == [state |-> "Valid", processed_count |-> 0]

----------------------------------------------------------------------------
\* The caller.

self == [state |-> state, processed_count |-> processed_count]

Init ==
    /\ state = new.state
    /\ processed_count = new.processed_count
    /\ stream = <<>>
    /\ op = "new"
    /\ chunkLen = 0
    /\ result = Ok
    /\ allOk = TRUE

\* v.validate(bytes) for a slice of n bytes; r is what the call leaves and
\* returns.
Validate ==
    \E n \in 0..(MaxLen - Len(stream)) :
      \E bytes \in [1..n -> Bytes] :
        \E r \in {validate(self, bytes)} :
            /\ state' = r.state
            /\ processed_count' = r.processed_count
            /\ stream' = stream \o bytes
            /\ op' = "validate"
            /\ chunkLen' = n
            /\ result' = r.res
            /\ allOk' = (allOk /\ r.res.ok)

\* Mutant: validate_end starts the validator over after an error.
ValidateEndResets ==
    /\ result' = validate_end(self)
    /\ op' = "validate_end"
    /\ chunkLen' = 0
    /\ state' = IF state = "Valid" THEN state ELSE "Valid"
    /\ processed_count' = IF state = "Valid" THEN processed_count ELSE 0
    /\ UNCHANGED <<stream, allOk>>

\* v.validate_end()
ValidateEnd ==
    /\ result' = validate_end(self)
    /\ op' = "validate_end"
    /\ chunkLen' = 0
    /\ UNCHANGED <<state, processed_count, stream, allOk>>

Next == Validate \/ ValidateEnd

Spec == Init /\ [][Next]_vars

\* v.validate(&[b]) with any byte value b, by a caller that feeds one byte per
\* call and has fed only bytes of Bytes before.
ValidateByte ==
    /\ Len(stream) < MaxDepth
    /\ \A i \in 1..Len(stream) : stream[i] \in Bytes
    /\ \E b \in AllBytes :
          \E r \in {validate(self, <<b>>)} :
              /\ state' = r.state
              /\ processed_count' = r.processed_count
              /\ stream' = Append(stream, b)
              /\ op' = "validate"
              /\ chunkLen' = 1
              /\ result' = r.res
              /\ allOk' = (allOk /\ r.res.ok)

NextByte == ValidateByte \/ ValidateEnd

\* The validator fed byte by byte, every (state, byte value) pair covered.
SpecByte == Init /\ [][NextByte]_vars

----------------------------------------------------------------------------
\* Well-formed UTF-8 as the Unicode standard defines it (what the standard
\* library's str::from_utf8 accepts), by decoding: the lead byte gives the
\* length of the sequence, every further byte is 10xxxxxx, and the encoded
\* value is a scalar value (at most U+10FFFF, no surrogate) in its shortest
\* form.

Min(a, b) == IF a <= b THEN a ELSE b
Max(a, b) == IF a >= b THEN a ELSE b

\* Length announced by a lead byte: 0xxxxxxx, 110xxxxx, 1110xxxx, 11110xxx;
\* 0 for a byte that is no lead byte.
SeqLen(b) ==
    IF b < 128 THEN 1
    ELSE IF b \div 32 = 6 THEN 2
    ELSE IF b \div 16 = 14 THEN 3
    ELSE IF b \div 8 = 30 THEN 4
    ELSE 0

\* 10xxxxxx
IsContinuation(b) == b \div 64 = 2

\* Smallest code point whose shortest form has n bytes.
MinCodePoint(n) == CASE n = 1 -> 0 [] n = 2 -> 128 [] n = 3 -> 2048 [] n = 4 -> 65536

\* The six payload bits of the k-th continuation byte of the sequence that
\* starts at s[i], or pad when the stream ends before it.
PayloadBits(s, i, k, pad) == IF i + k <= Len(s) THEN s[i + k] - 128 ELSE pad

\* The value encoded by the n-byte sequence starting at s[i], missing bytes
\* read as 10pppppp.
CodePoint(s, i, n, pad) ==
    CASE n = 1 -> s[i]
      [] n = 2 -> (s[i] - 192) * 64 + PayloadBits(s, i, 1, pad)
      [] n = 3 -> ((s[i] - 224) * 64 + PayloadBits(s, i, 1, pad)) * 64
                    + PayloadBits(s, i, 2, pad)
      [] n = 4 -> (((s[i] - 240) * 64 + PayloadBits(s, i, 1, pad)) * 64
                    + PayloadBits(s, i, 2, pad)) * 64
                    + PayloadBits(s, i, 3, pad)

\* Some scalar value lies in lo..hi.
HasScalarValue(lo, hi) == lo <= hi /\ ~(lo >= 55296 /\ hi <= 57343)

\* "complete": s from index i on is a sequence of well-formed characters;
\* "truncated": it is one up to a last character that is cut short but can
\* still be completed; "invalid": neither.
RECURSIVE Utf8From(_, _)
Utf8From(s, i) ==
    IF i > Len(s) THEN "complete"
    ELSE LET n == SeqLen(s[i])
             have == Min(n, Len(s) - i + 1)
         IN  IF n = 0 THEN "invalid"
             ELSE IF \E k \in 1..(have - 1) : ~IsContinuation(s[i + k])
             THEN "invalid"
             ELSE IF ~HasScalarValue(Max(CodePoint(s, i, n, 0), MinCodePoint(n)),
                                     Min(CodePoint(s, i, n, 63), 1114111))
             THEN "invalid"
             ELSE IF have < n THEN "truncated"
             ELSE Utf8From(s, i + n)

IsUtf8(s) == Utf8From(s, 1) = "complete"

IsTruncatedUtf8(s) == Utf8From(s, 1) = "truncated"

----------------------------------------------------------------------------
\* What the caller of the tests computes.

\* v.validate(..) for every chunk, and_then v.validate_end(): Ok overall.
OverallOk == allOk /\ validate_end(self).ok

\* The bytes fed before the last validate call, and the slice it was given.
Before == SubSeq(stream, 1, Len(stream) - chunkLen)
LastChunk == SubSeq(stream, Len(stream) - chunkLen + 1, Len(stream))

\* The slice given to the validate call that a step makes.
Fed == SubSeq(stream', Len(stream) + 1, Len(stream'))

\* The stream holds a sequence that encodes a value above U+10FFFF: lead 0xF4
\* followed by a byte of 0x90 or more, or a lead 0xF5-0xFF.
HasTooLargeCodepoint(s) ==
    \E i \in 1..Len(s) :
        \/ s[i] >= 245
        \/ s[i] = 244 /\ i < Len(s) /\ s[i + 1] >= 144

----------------------------------------------------------------------------
\* C1: one validate(B) on a fresh validator, and validate_end() after it when
\* it succeeded, succeed together exactly if B is complete well-formed UTF-8.
C1_MatchesStdlibNoSplits ==
    (op = "validate" /\ chunkLen = Len(stream))
        => ((result.ok /\ validate_end(self).ok) <=> IsUtf8(stream))

\* C2: whatever the chunks, the validator is in the state that one validate
\* call with the whole stream reaches from a fresh validator, and the overall
\* outcome (all validate calls and validate_end) is that of the single call.
C2_ChunkInvariance ==
    LET whole == validate(new, stream)
    IN  /\ state = whole.state
        /\ OverallOk <=> (whole.res.ok /\ validate_end(whole).ok)

\* C2 witness: a four-byte character was split in the middle between two
\* validate calls and accepted.
C2_Witness ==
    /\ op = "validate" /\ allOk /\ state = "Valid"
    /\ stream = <<240, 144, 128, 128>> /\ chunkLen = 2

\* C3: a stream holding an encoding of a value above U+10FFFF is never
\* accepted, whatever the chunks.
C3_RejectsTooLargeCodepoints ==
    HasTooLargeCodepoint(stream) => ~OverallOk

\* The DFA state after the bytes of s, one transition per byte from Valid.
RECURSIVE DfaFrom(_, _, _)
DfaFrom(st, s, i) ==
    IF i > Len(s) THEN st ELSE DfaFrom(NextState(st, s[i]), s, i + 1)

DfaAfter(s) == DfaFrom("Valid", s, 1)

\* C4: overlong encodings and surrogates are rejected at the offending byte.
\* While no call has failed, validate on lead 0xC0 or 0xC1, on a byte outside
\* 0xA0-0xBF right after lead 0xE0, on a byte outside 0x80-0x9F right after
\* lead 0xED, or on a byte outside 0x90-0xBF right after lead 0xF0, moves the
\* validator to Invalid and returns the error carrying that byte's offset.
C4_RejectedAt(b) ==
    LET r == validate(self, <<b>>)
    IN  r.state = "Invalid" /\ r.res = ErrInvalidByte(Len(stream))

C4_RejectsOverlongAndSurrogates ==
    allOk =>
        /\ state = "Valid" => \A b \in {192, 193} : C4_RejectedAt(b)
        /\ (Len(stream) > 0 /\ stream[Len(stream)] = 224)
              => \A b \in AllBytes \ (160..191) : C4_RejectedAt(b)
        /\ (Len(stream) > 0 /\ stream[Len(stream)] = 237)
              => \A b \in AllBytes \ (128..159) : C4_RejectedAt(b)
        /\ (Len(stream) > 0 /\ stream[Len(stream)] = 240)
              => \A b \in AllBytes \ (144..191) : C4_RejectedAt(b)

\* C4 witness: a validate call has just failed on the overlong 0xE0 0x80, at
\* the offset of the 0x80.
C4_Witness ==
    /\ op = "validate" /\ ~result.ok /\ state = "Invalid"
    /\ result.pos >= 1 /\ result.pos < Len(stream)
    /\ stream[result.pos] = 224 /\ stream[result.pos + 1] = 128

\* C5: the validate call that fails first returns the position of the byte
\* that drove the DFA to Invalid, counted from 0 over all bytes fed so far.
C5_ExactOffset ==
    [][(allOk /\ ~allOk') =>
          \E k \in 0..(Len(stream') - 1) :
              /\ DfaAfter(SubSeq(stream', 1, k)) # "Invalid"
              /\ DfaAfter(SubSeq(stream', 1, k + 1)) = "Invalid"
              /\ result' = ErrInvalidByte(k)]_vars

\* C5 witness: the first failure happened in a chunk that came after ASCII
\* chunks (which took the fast path), at an offset inside the later chunk.
C5_Witness ==
    /\ op = "validate" /\ ~result.ok
    /\ Len(Before) > 0 /\ is_ascii(Before)
    /\ chunkLen > 0 /\ result.pos >= Len(Before)

\* C6: once Invalid, always Invalid, whatever is called with whatever chunk,
\* and validate_end fails from then on.
C6_NonRecovery ==
    [][state = "Invalid" =>
          /\ state' = "Invalid"
          /\ op' = "validate_end" => ~result'.ok]_vars

\* C6 witness: an all-ASCII chunk was fed to a validator that was already
\* Invalid.
C6_Witness ==
    /\ op = "validate" /\ state = "Invalid"
    /\ chunkLen > 0 /\ is_ascii(LastChunk)
    /\ DfaAfter(Before) = "Invalid"

\* C7: validate_end returns Ok exactly when the state it is called in is Valid.
C7_EndOkIffValid ==
    [][op' = "validate_end" => (result'.ok <=> state = "Valid")]_vars

\* C7 witness: validate_end was called while a continuation byte was awaited
\* and failed.
C7_Witness ==
    op = "validate_end" /\ state \in AwaitingStates /\ ~result.ok

\* C8: validate_end changes neither the state nor the counter, and a second
\* call right after it returns what the first returned.
C8_EndReadOnly ==
    [][op' = "validate_end" =>
          /\ state' = state
          /\ processed_count' = processed_count
          /\ op = "validate_end" => result' = result]_vars

\* C8 witness: validate_end was called on a validator that has consumed bytes
\* and then failed.
C8_Witness ==
    op = "validate_end" /\ processed_count > 0 /\ state = "Invalid"

\* C9: when the bytes fed so far are well-formed up to a last character that
\* is cut short, validate has returned Ok every time and left an awaiting
\* state, and validate_end fails.
C9_TruncationOnlyAtEnd ==
    IsTruncatedUtf8(stream) =>
        /\ allOk
        /\ op = "validate" => result.ok
        /\ state \in AwaitingStates
        /\ ~validate_end(self).ok
        /\ op = "validate_end" => ~result.ok

\* C9 witness: validate(0xF0 0x90 0x80) returned Ok.
C9_Witness ==
    /\ op = "validate" /\ chunkLen = 3 /\ stream = <<240, 144, 128>>
    /\ result.ok /\ state = "AwaitingOneByte"

\* C10: a new validator is Valid with counter 0; validate with an empty slice
\* returns Ok and changes neither state nor counter, in whatever state; and
\* validate_end succeeds while no byte has been fed.
C10_EmptyInput ==
    [][/\ op = "new" => (state = "Valid" /\ processed_count = 0)
       /\ (op' = "validate" /\ Len(stream') = Len(stream)) =>
              /\ result' = Ok
              /\ state' = state
              /\ processed_count' = processed_count
       /\ (op' = "validate_end" /\ stream' = <<>>) => result'.ok]_vars

\* C10 witness: validate with an empty slice returned Ok on a validator that
\* is Invalid.
C10_Witness ==
    op = "validate" /\ chunkLen = 0 /\ state = "Invalid" /\ result.ok

\* C11: the fast path is taken only in state Valid on a slice of bytes
\* 0x00-0x7F (on any other call validate is the slow-path loop itself); and a
\* validate call with an all-ASCII slice, in whatever state, returns what, and
\* leaves the state and the counter that, the slow-path loop alone would.
\* Where the slice is the single ASCII byte of Bytes, the same holds in that
\* state for the bytes at the two ends of the ASCII range and the first byte
\* above it.
C11_FastPathEquivalence ==
    [][op' = "validate" =>
          /\ FastPath(self, Fed) =>
                (state = "Valid" /\ \A i \in 1..Len(Fed) : Fed[i] \in 0..127)
          /\ (\A i \in 1..Len(Fed) : Fed[i] \in 0..127) =>
                \A r \in {SlowPath(self, Fed, 1)} :
                    /\ state' = r.state
                    /\ processed_count' = r.processed_count
                    /\ result' = r.res
          /\ Fed = <<65>> =>
                \A b \in {0, 127, 128} :
                    validate(self, <<b>>) = SlowPath(self, <<b>>, 1)]_vars

\* C11 witness: an all-ASCII chunk was fed while a continuation byte was
\* awaited, and was rejected.
C11_Witness ==
    /\ op = "validate" /\ chunkLen > 0 /\ is_ascii(LastChunk)
    /\ DfaAfter(Before) \in AwaitingStates
    /\ ~result.ok /\ state = "Invalid"

\* C12 as stated: after the validate call that fails at offset k the counter
\* is k + 1.
C12_CounterIncludesFailingByte ==
    [][(allOk /\ ~allOk') =>
          \E k \in 0..(Len(stream') - 1) :
              /\ DfaAfter(SubSeq(stream', 1, k)) # "Invalid"
              /\ DfaAfter(SubSeq(stream', 1, k + 1)) = "Invalid"
              /\ processed_count' = k + 1]_vars

\* C12 amended: a slow-path call that succeeds adds 1 for every byte of the
\* slice; a call that fails at offset k has counted the k bytes before the
\* failing byte and not that byte: the counter is k.
C12_CounterExcludesFailingByte ==
    [][/\ (op' = "validate" /\ result'.ok /\ ~FastPath(self, Fed)) =>
              processed_count' = processed_count + Len(Fed)
       /\ (allOk /\ ~allOk') =>
              \E k \in 0..(Len(stream') - 1) :
                  /\ DfaAfter(SubSeq(stream', 1, k)) # "Invalid"
                  /\ DfaAfter(SubSeq(stream', 1, k + 1)) = "Invalid"
                  /\ processed_count' = k]_vars

\* C12 witness: one slow-path call accepted at least one byte and then
\* failed; the counter is the offset of the failing byte.
C12_Witness ==
    /\ op = "validate" /\ chunkLen = Len(stream) /\ ~result.ok
    /\ result.pos >= 1 /\ processed_count = result.pos

\* C13: right after lead 0xF4 was accepted, a byte in 0x80-0x9F is accepted
\* and leaves two ordinary continuation bytes awaited; every other byte moves
\* the validator to Invalid.
C13_AfterF4 ==
    [][(/\ op' = "validate" /\ Len(Fed) = 1
        /\ allOk /\ Len(stream) > 0 /\ stream[Len(stream)] = 244) =>
          IF InRange(Fed[1], 128, 159)
          THEN state' = "AwaitingTwoBytesA" /\ result'.ok
          ELSE state' = "Invalid" /\ ~result'.ok]_vars

\* Bytes that may not start a sequence: 0x80-0xC1 and 0xF5-0xFF.
IllegalLead(b) == InRange(b, 128, 193) \/ InRange(b, 245, 255)

\* C14: a byte fed in state Valid makes validate fail and the state Invalid
\* exactly if it is in 0x80-0xC1 or 0xF5-0xFF; and in every state, for every
\* byte value, the call returns Ok or the invalid-byte error and leaves one of
\* the nine states.
C14_LeadBytesAndTotality ==
    [][(op' = "validate" /\ Len(Fed) = 1) =>
          /\ state' \in States
          /\ result' \in {Ok, ErrInvalidByte(processed_count)}
          /\ state = "Valid" =>
                IF IllegalLead(Fed[1])
                THEN state' = "Invalid" /\ ~result'.ok
                ELSE state' # "Invalid" /\ result'.ok]_vars

\* C14 witness: validate(&[0xFF]) on a new validator failed at position 0.
C14_Witness ==
    /\ op = "validate" /\ stream = <<255>>
    /\ state = "Invalid" /\ result = ErrInvalidByte(0)

\* Index of the last byte of s that is no continuation byte (0 if none): the
\* lead byte of the character the stream ends in.
LastLead(s) ==
    LET leads == {i \in 1..Len(s) : ~IsContinuation(s[i])}
    IN  IF leads = {} THEN 0 ELSE CHOOSE i \in leads : \A j \in leads : j <= i

\* C15: while no call has failed, the validator is back at Valid exactly when
\* the last lead byte has been followed by as many continuation bytes as it
\* announces (1, 2 or 3); while awaiting, a byte that is no continuation byte
\* gives Invalid; at Valid, a continuation byte gives Invalid; and after the
\* first continuation byte of a sequence, the next byte is accepted exactly if
\* it lies in 0x80-0xBF.
C15_SequenceLength ==
    (allOk /\ Len(stream) > 0) =>
        LET p == LastLead(stream)
            got == Len(stream) - p
        IN  /\ p > 0
            /\ state = "Valid" <=> got = SeqLen(stream[p]) - 1
            /\ \A b \in AllBytes :
                  LET r == validate(self, <<b>>)
                  IN  /\ (state \in AwaitingStates /\ ~IsContinuation(b))
                          => (r.state = "Invalid" /\ ~r.res.ok)
                      /\ (state = "Valid" /\ IsContinuation(b))
                          => (r.state = "Invalid" /\ ~r.res.ok)
                      /\ (state \in AwaitingStates /\ got >= 1)
                          => (r.res.ok <=> IsContinuation(b))

\* C15 witness: a four-byte character fed byte by byte was accepted and the
\* validator is back at Valid after its third continuation byte.
C15_Witness ==
    /\ op = "validate" /\ chunkLen = 1 /\ allOk /\ state = "Valid"
    /\ stream = <<241, 128, 128, 128>>

\* C16: a validate call with a non-empty slice returns an error exactly when
\* it leaves the state Invalid, from whatever state it starts; when it returns
\* Ok the state is Valid or an awaiting state.
C16_ErrorIffInvalid ==
    [][(op' = "validate" /\ Len(Fed) > 0) =>
          /\ ~result'.ok <=> state' = "Invalid"
          /\ result'.ok => state' \in AwaitingStates \cup {"Valid"}]_vars

\* C16 witness: a slice starting with a byte that is a legal lead byte was fed
\* to a validator that was already Invalid, and validate returned an error.
C16_Witness ==
    /\ op = "validate" /\ chunkLen > 0 /\ DfaAfter(Before) = "Invalid"
    /\ NextState("Valid", LastChunk[1]) \in AwaitingStates
    /\ ~result.ok /\ state = "Invalid"

\* C17: while no validate call has failed the counter is the number of bytes
\* passed to validate so far; and no call ever lowers the counter.
C17_CounterIsBytesFed ==
    [][/\ allOk => processed_count = Len(stream)
       /\ allOk' => processed_count' = Len(stream')
       /\ processed_count' >= processed_count]_vars

\* C17 witness: bytes consumed by fast-path calls and bytes consumed by a
\* slow-path call are both in the count.
C17_Witness ==
    /\ op = "validate" /\ allOk
    /\ Len(Before) > 0 /\ is_ascii(Before)
    /\ chunkLen > 0 /\ ~is_ascii(LastChunk)
    /\ processed_count = Len(stream)

\* C18: the call that fails first leaves the counter at the offset of the bad
\* byte, whatever follows that byte in its slice; after that no call changes
\* the counter, and every validate call with a non-empty slice fails, keeps
\* the state Invalid and reports that same offset.
C18_FrozenAfterFailure ==
    [][/\ (allOk /\ ~allOk') =>
              /\ processed_count' = result'.pos
              /\ DfaAfter(SubSeq(stream', 1, result'.pos)) # "Invalid"
              /\ DfaAfter(SubSeq(stream', 1, result'.pos + 1)) = "Invalid"
       /\ ~allOk =>
              /\ processed_count' = processed_count
              /\ (op' = "validate" /\ Len(Fed) > 0) =>
                    /\ state' = "Invalid"
                    /\ result' = ErrInvalidByte(processed_count)]_vars

\* C18 witness: bytes were fed after the failure, in the failing slice or in
\* later ones, and a later call again reported the offset of the first
\* failure, at which the counter still stands.
C18_Witness ==
    /\ op = "validate" /\ chunkLen > 0 /\ ~result.ok
    /\ DfaAfter(Before) = "Invalid"
    /\ result.pos + 1 < Len(Before)
    /\ DfaAfter(SubSeq(stream, 1, result.pos)) # "Invalid"
    /\ DfaAfter(SubSeq(stream, 1, result.pos + 1)) = "Invalid"
    /\ processed_count = result.pos

TypeOK ==
    /\ state \in States
    /\ processed_count \in 0..MaxLen
    /\ stream \in Seq(AllBytes) /\ Len(stream) <= MaxLen
    /\ op \in {"new", "validate", "validate_end"}
    /\ chunkLen \in 0..Len(stream)
    /\ allOk \in BOOLEAN

====
